---- MODULE Spec2Model ----
(***************************************************************************)
(* Chat synchronization and messaging coordinator of the school chat       *)
(* front-end: the cross-tab event bus (utils/chatEventBus.ts), the sync    *)
(* hook (hooks/useChatSync.ts), the chat service (services/chats.ts) and   *)
(* the chat wrapper (components/chat/ChatWrapper.tsx).                     *)
(*                                                                         *)
(* One browser tab is modelled in full.  The other tabs are the            *)
(* environment: they broadcast on the shared clock, so a storage           *)
(* notification that reaches this tab carries any timestamp up to the      *)
(* current clock value, in any order.                                      *)
(***************************************************************************)
EXTENDS Integers, Sequences, FiniteSets, TLC

VARIABLES
    now,                 \* Date.now(), shared by all tabs of the browser
    lastEventTimestamp,  \* ChatEventBus.lastEventTimestamp
    listeners,           \* ChatEventBus.listeners: key -> array of callbacks
    handles,             \* the unsubscribe closures subscribe() has returned
    envListeners,        \* listeners attached to window / document
    storage,             \* localStorage['chat_event']
    cleanups,            \* pending setTimeout(cleanup, 100) of broadcast
    dispatched,          \* timestamps of the events handed to notifyListeners, in order
    registered,          \* registrations that are to be live (history)
    token,               \* the sub claim of localStorage['token']
    hook,                \* one useChatSync instance of this tab
    calls,               \* the chatService calls made so far, in flight or settled
    wrapper,             \* one ChatWrapper instance of this tab
    messageRating,       \* one MessageRating component of this tab
    peer,                \* the bus instance of another tab and the notifications queued for it
    twin,                \* that instance where the writer's cleanup timers never run
    lastOp               \* the last operation and what it did (history)

busVars == <<now, lastEventTimestamp, listeners, handles, envListeners,
             storage, cleanups, dispatched, registered>>

hookVars == <<token, hook>>

chatVars == <<calls, wrapper, messageRating>>

relayVars == <<peer, twin>>

vars == <<busVars, hookVars, chatVars, relayVars, lastOp>>

----------------------------------------------------------------------------
(* Bounds of the model *)

MaxClock == 3        \* the clock runs from 1 to MaxClock
MaxRegs == 3         \* subscribe() calls per run
MaxEffectRuns == 2   \* runs of the hook's subscription effect
MaxCalls == 1        \* chatService calls made directly per run
MaxSends == 2        \* sends a wrapper starts per run
MaxInvocations == 3  \* invocations of the wrapper's initial-message effect

MaxPending == 1         \* notifications queued for another tab

MaxDispatched == 3      \* events one instance hands to its listeners per run

MaxTimeouts == 3        \* setTimeout calls of the hook's auto-refresh effect per run

MaxMessages == 2        \* messages of a conversation the server returns

MaxErrorTimers == 2     \* pending timers that clear the error of a rating

----------------------------------------------------------------------------
(* Values *)

NoValue == "undefined"           \* undefined / null / absent property

EventTypes == {"conversation_created", "conversation_updated",
               "conversation_deleted", "message_sent", "force_refresh"}

Wildcard == "*"

ListenerKeys == EventTypes \cup {Wildcard}

RelayKey == "chat_event"

ChatEvent(type, conversationId, userId, timestamp) ==
    [type |-> type, conversationId |-> conversationId,
     userId |-> userId, timestamp |-> timestamp]

OptionalFields == {"type", "conversationId", "userId"}

EventFields == OptionalFields \cup {"timestamp"}

(* JSON.stringify drops the properties whose value is undefined; JSON.parse
   gives back an object on which those properties read as undefined. *)
JSONstringify(event) ==
    [kind |-> "json",
     present |-> {f \in OptionalFields : event[f] # NoValue} \cup {"timestamp"},
     value |-> event]

NullValue == [kind |-> "null", present |-> {},
              value |-> ChatEvent(NoValue, NoValue, NoValue, 0)]

Garbage == [kind |-> "garbage", present |-> {},
            value |-> ChatEvent(NoValue, NoValue, NoValue, 0)]

(* a timestamp that reads as undefined; timestamps are integers in this
   model, and Date.now() is positive *)
NoTimestamp == -1

JSONparse(text) ==
    [k \in EventFields |->
        IF k \in text.present THEN text.value[k]
        ELSE IF k = "timestamp" THEN NoTimestamp ELSE NoValue]

Truthy(v) == v # NoValue /\ v # ""

----------------------------------------------------------------------------
(* Event bus: utils/chatEventBus.ts *)

(* A callback is a function value; indexOf compares it by identity, which
   here is the pair (fn, id): a named function has id 0, an arrow function
   created by an effect run has the number of that run.  uid is the user id
   a hook closure captured.  reg is the subscribe() call that pushed it and
   is invisible to the code. *)
Callbacks == {"f", "boom"}

Listener(fn, id, uid, reg) == [fn |-> fn, id |-> id, uid |-> uid, reg |-> reg]

SameCallback(l, h) == l.fn = h.fn /\ l.id = h.id

Throws(l) == l.fn = "boom"

(* hooks/useChatSync.ts: the arrow functions the subscription effect hands
   to subscribe().  fn is "hook:" for them; a call they make is recorded as
   the options callback and the conversation id it received. *)
HookTypes == <<"conversation_created", "conversation_updated",
               "conversation_deleted", "message_sent", "force_refresh">>

OptionName(type) ==
    CASE type = "conversation_created" -> "onConversationCreated"
      [] type = "conversation_updated" -> "onConversationUpdated"
      [] type = "conversation_deleted" -> "onConversationDeleted"
      [] type = "message_sent" -> "onMessageSent"
      [] type = "force_refresh" -> "onForceRefresh"

IsHookListener(l) == l.fn = "hook"

shouldHandleEvent_absentOnly(userId, currentUserId) == ~Truthy(userId)

shouldHandleEvent_always(userId, currentUserId) == TRUE

(* shouldHandleEvent: !userId || userId !== currentUserId *)
shouldHandleEvent(userId, currentUserId) ==
    ~Truthy(userId) \/ userId # currentUserId

(* the body of the listener subscribed for event.type *)
hookListener(l, event) ==
    IF event.type = "force_refresh"
    THEN IF shouldHandleEvent(event.userId, l.uid)
         THEN <<[cb |-> OptionName(event.type), conversationId |-> NoValue]>>
         ELSE <<>>
    ELSE IF shouldHandleEvent(event.userId, l.uid) /\ Truthy(event.conversationId)
         THEN <<[cb |-> OptionName(event.type),
                 conversationId |-> event.conversationId]>>
         ELSE <<>>

RECURSIVE hookCalls(_, _)
hookCalls(invoked, event) ==
    IF invoked = <<>> THEN <<>>
    ELSE (IF IsHookListener(Head(invoked)) THEN hookListener(Head(invoked), event)
          ELSE <<>>) \o hookCalls(Tail(invoked), event)

NoDispatch == [invoked |-> <<>>, caught |-> 0, escaped |-> FALSE]

forEachListener_noCatch(ls, acc) ==
    IF \E i \in 1..Len(ls) : Throws(ls[i])
    THEN LET first == CHOOSE i \in 1..Len(ls) :
                         Throws(ls[i]) /\ \A j \in 1..(i-1) : ~Throws(ls[j])
         IN [invoked |-> acc.invoked \o SubSeq(ls, 1, first),
             caught |-> 0, escaped |-> TRUE]
    ELSE [invoked |-> acc.invoked \o ls, caught |-> 0, escaped |-> FALSE]

(* allEventListeners.forEach(listener => { try { listener(event) } catch {} }) *)
RECURSIVE forEachListener(_, _)
forEachListener(ls, acc) ==
    IF ls = <<>> THEN acc
    ELSE forEachListener(Tail(ls),
             [invoked |-> Append(acc.invoked, Head(ls)),
              caught  |-> acc.caught + (IF Throws(Head(ls)) THEN 1 ELSE 0),
              escaped |-> FALSE])

notifyListeners_typeOnly(ls, event) ==
    forEachListener(ls[event.type], NoDispatch)

(* notifyListeners(event) *)
notifyListeners(ls, event) ==
    LET typeListeners == IF event.type \in DOMAIN ls THEN ls[event.type] ELSE <<>>
        allListeners == ls[Wildcard]
        allEventListeners == typeListeners \o allListeners
    IN forEachListener(allEventListeners, NoDispatch)

isOldEvent_strict(timestamp, last) == timestamp < last

(* "Ignore old events": event.timestamp <= this.lastEventTimestamp, which is
   false when either side is undefined *)
isOldEvent(timestamp, last) ==
    timestamp # NoTimestamp /\ last # NoTimestamp /\ timestamp <= last

HasEnvListener(target, type) ==
    \E l \in envListeners : l.target = target /\ l.type = type

StorageOp(outcome, event, result) ==
    [op |-> "handleStorageEvent", outcome |-> outcome, event |-> event,
     before |-> lastEventTimestamp, result |-> result, arg |-> 0,
     calls |-> hookCalls(result.invoked, event)]

NoEvent == ChatEvent(NoValue, NoValue, NoValue, 0)

(* handleStorageEvent(e): runs when the window delivers a storage event *)
handleStorageEvent(key, newValue) ==
    /\ HasEnvListener("window", "storage")
    /\ IF key = RelayKey /\ newValue.kind # "null"
       THEN IF newValue.kind = "garbage"
            THEN /\ UNCHANGED <<lastEventTimestamp, dispatched>>
                 /\ lastOp' = StorageOp("parse_error", NoEvent, NoDispatch)
            ELSE LET event == JSONparse(newValue) IN
                 IF isOldEvent(event.timestamp, lastEventTimestamp)
                 THEN /\ UNCHANGED <<lastEventTimestamp, dispatched>>
                      /\ lastOp' = StorageOp("discarded", event, NoDispatch)
                 ELSE /\ lastEventTimestamp' = event.timestamp
                      /\ dispatched' = Append(dispatched, event.timestamp)
                      /\ lastOp' = StorageOp("dispatched", event,
                                             notifyListeners(listeners, event))
       ELSE /\ UNCHANGED <<lastEventTimestamp, dispatched>>
            /\ lastOp' = StorageOp("ignored", NoEvent, NoDispatch)
    /\ UNCHANGED <<now, listeners, handles, envListeners, storage, cleanups,
                   registered, hookVars, chatVars, relayVars>>

BusOp(op, outcome, event, arg) ==
    [op |-> op, outcome |-> outcome, event |-> event,
     before |-> lastEventTimestamp, result |-> NoDispatch, arg |-> arg,
     calls |-> <<>>]

(* The bus instance of another tab runs the same code; its state is a record
   of the notifications queued for it, its lastEventTimestamp and the events
   it handed to notifyListeners. *)
NewInstance == [pending |-> <<>>, last |-> 0, dispatched |-> <<>>]

(* missed: a write fired a storage event only where the cleanup had run *)
NewTwin == [storage |-> NullValue, pending |-> <<>>, last |-> 0, dispatched |-> <<>>,
            missed |-> FALSE]

Notification(newValue) == [key |-> RelayKey, newValue |-> newValue]

(* localStorage fires a storage event in the other tabs when setItem or
   removeItem changes the value of the key *)
storageEvents(before, after) ==
    IF before = after THEN <<>> ELSE <<Notification(after)>>

receivedOutcome(b, n) ==
    IF n.key = RelayKey /\ n.newValue.kind # "null"
    THEN IF n.newValue.kind = "garbage" THEN "parse_error"
         ELSE IF isOldEvent(JSONparse(n.newValue).timestamp, b.last)
              THEN "discarded" ELSE "dispatched"
    ELSE "ignored"

received_unfiltered(b, n) ==
    IF n.key = RelayKey /\ n.newValue.kind = "json"
    THEN [b EXCEPT !.last = JSONparse(n.newValue).timestamp,
                   !.dispatched = Append(@, JSONparse(n.newValue))]
    ELSE b

(* handleStorageEvent(e) of that instance *)
received(b, n) ==
    IF receivedOutcome(b, n) = "dispatched"
    THEN [b EXCEPT !.last = JSONparse(n.newValue).timestamp,
                   !.dispatched = Append(@, JSONparse(n.newValue))]
    ELSE b

(* broadcast() of that instance at time t, its write succeeding *)
broadcasted(b, t) == [b EXCEPT !.last = t]

(* what a hook of that tab whose currentUserId is uid and that was given
   every callback is called with for the events the instance dispatched *)
RECURSIVE callsFor(_, _)
callsFor(uid, events) ==
    IF events = <<>> THEN <<>>
    ELSE hookListener(Listener("hook", 0, uid, 0), Head(events))
             \o callsFor(uid, Tail(events))

(* subscribe(eventType, callback): pushes the callback and returns the
   unsubscribe closure, which captures eventType and callback.  bus is the
   pair of listeners and closures returned so far. *)
subscribeBus(bus, eventType, fn, id, uid) ==
    LET reg == Len(bus.handles) + 1 IN
    [listeners |-> [bus.listeners EXCEPT
                       ![eventType] = Append(@, Listener(fn, id, uid, reg))],
     handles |-> Append(bus.handles, [eventType |-> eventType, fn |-> fn, id |-> id])]

subscribe(eventType, fn, id, uid) ==
    LET bus == subscribeBus([listeners |-> listeners, handles |-> handles],
                            eventType, fn, id, uid)
    IN /\ listeners' = bus.listeners
       /\ handles' = bus.handles
       /\ registered' = registered \cup {Len(bus.handles)}
       /\ lastOp' = BusOp("subscribe", "ok", NoEvent, Len(bus.handles))
       /\ UNCHANGED <<now, lastEventTimestamp, envListeners, storage, cleanups,
                      dispatched, hookVars, chatVars, relayVars>>

(* listeners.indexOf(callback): the first position holding that function *)
indexOf(ls, h) ==
    IF \E i \in 1..Len(ls) : SameCallback(ls[i], h)
    THEN CHOOSE i \in 1..Len(ls) :
             SameCallback(ls[i], h) /\ \A j \in 1..(i-1) : ~SameCallback(ls[j], h)
    ELSE 0

splice(ls, index) == SubSeq(ls, 1, index - 1) \o SubSeq(ls, index + 1, Len(ls))

(* the closure subscribe() returned *)
unsubscribeListeners(ls, h) ==
    LET index == indexOf(ls[h.eventType], h) IN
    IF index > 0 THEN [ls EXCEPT ![h.eventType] = splice(@, index)] ELSE ls

unsubscribe(reg) ==
    /\ reg \in 1..Len(handles)
    /\ listeners' = unsubscribeListeners(listeners, handles[reg])
    /\ registered' = registered \ {reg}
    /\ lastOp' = BusOp("unsubscribe",
                       IF listeners' = listeners THEN "none" ELSE "removed",
                       NoEvent, reg)
    /\ UNCHANGED <<now, lastEventTimestamp, handles, envListeners, storage,
                   cleanups, dispatched, hookVars, chatVars, relayVars>>

(* broadcast(type, conversationId, data, userId); written tells whether
   localStorage.setItem returned or threw (quota), which the code catches *)
broadcastEvent(type, conversationId, userId) ==
    ChatEvent(type, conversationId, userId, now)

broadcast_noTimestamp(type, conversationId, userId, written) ==
    LET event == broadcastEvent(type, conversationId, userId) IN
    IF written
    THEN /\ storage' = JSONstringify(event)
         /\ cleanups' = cleanups \cup {event.timestamp}
         /\ UNCHANGED lastEventTimestamp
    ELSE UNCHANGED <<storage, lastEventTimestamp, cleanups>>

broadcast(type, conversationId, userId, written) ==
    LET event == broadcastEvent(type, conversationId, userId) IN
    IF written
    THEN /\ storage' = JSONstringify(event)
         /\ lastEventTimestamp' = event.timestamp
         /\ cleanups' = cleanups \cup {event.timestamp}
    ELSE UNCHANGED <<storage, lastEventTimestamp, cleanups>>

(* a component of this tab calls chatEventBus.broadcast *)
Broadcast(type, conversationId, userId, written) ==
    /\ broadcast(type, conversationId, userId, written)
    /\ lastOp' = BusOp("broadcast", IF written THEN "written" ELSE "write_failed",
                       broadcastEvent(type, conversationId, userId), 0)
    /\ UNCHANGED <<now, listeners, handles, envListeners, dispatched, registered,
                   hookVars, chatVars>>

(* the timer broadcast() set: removes the key if it still holds that event *)
cleanup(timestamp) ==
    /\ timestamp \in cleanups
    /\ cleanups' = cleanups \ {timestamp}
    /\ storage' = IF storage.kind = "json" /\ JSONparse(storage).timestamp = timestamp
                  THEN NullValue ELSE storage
    /\ lastOp' = BusOp("cleanup", IF storage' = storage THEN "kept" ELSE "removed",
                       NoEvent, timestamp)
    /\ UNCHANGED <<now, lastEventTimestamp, listeners, handles, envListeners,
                   dispatched, registered, hookVars, chatVars>>

(* the timer runs and getItem, JSON.parse or removeItem throws: the catch
   block ignores it *)
cleanupFails(timestamp) ==
    /\ timestamp \in cleanups
    /\ cleanups' = cleanups \ {timestamp}
    /\ lastOp' = BusOp("cleanup", "failed", NoEvent, timestamp)
    /\ UNCHANGED <<now, lastEventTimestamp, listeners, handles, envListeners,
                   storage, dispatched, registered, hookVars, chatVars>>

(* handleWindowFocus *)
handleWindowFocus(written) ==
    /\ HasEnvListener("window", "focus")
    /\ broadcast("force_refresh", NoValue, NoValue, written)
    /\ lastOp' = BusOp("handleWindowFocus", IF written THEN "written" ELSE "write_failed",
                       broadcastEvent("force_refresh", NoValue, NoValue), 0)
    /\ UNCHANGED <<now, listeners, handles, envListeners, dispatched, registered,
                   hookVars, chatVars, relayVars>>

handleVisibilityChange_always(hidden, written) ==
    /\ HasEnvListener("document", "visibilitychange")
    /\ broadcast("force_refresh", NoValue, NoValue, written)
    /\ lastOp' = BusOp("handleVisibilityChange",
                       IF written THEN "written" ELSE "write_failed",
                       broadcastEvent("force_refresh", NoValue, NoValue),
                       IF hidden THEN 1 ELSE 0)
    /\ UNCHANGED <<now, listeners, handles, envListeners, dispatched, registered,
                   hookVars, chatVars, relayVars>>

(* handleVisibilityChange; hidden is document.hidden, which the operation
   record keeps as 1 or 0 *)
handleVisibilityChange(hidden, written) ==
    /\ HasEnvListener("document", "visibilitychange")
    /\ IF ~hidden
       THEN /\ broadcast("force_refresh", NoValue, NoValue, written)
            /\ lastOp' = BusOp("handleVisibilityChange",
                               IF written THEN "written" ELSE "write_failed",
                               broadcastEvent("force_refresh", NoValue, NoValue), 0)
       ELSE /\ UNCHANGED <<storage, lastEventTimestamp, cleanups>>
            /\ lastOp' = BusOp("handleVisibilityChange", "hidden", NoEvent, 1)
    /\ UNCHANGED <<now, listeners, handles, envListeners, dispatched, registered,
                   hookVars, chatVars, relayVars>>

(* The constructor attaches this.handleX.bind(this), a new function value
   each; destroy() passes this.handleX itself to removeEventListener. *)
ConstructorListeners ==
    {[target |-> "window", type |-> "storage", fn |-> "handleStorageEvent.bind(this)"],
     [target |-> "window", type |-> "focus", fn |-> "handleWindowFocus.bind(this)"],
     [target |-> "document", type |-> "visibilitychange",
      fn |-> "handleVisibilityChange.bind(this)"]}

DestroyListeners ==
    {[target |-> "window", type |-> "storage", fn |-> "handleStorageEvent"],
     [target |-> "window", type |-> "focus", fn |-> "handleWindowFocus"],
     [target |-> "document", type |-> "visibilitychange",
      fn |-> "handleVisibilityChange"]}

EmptyListeners == [k \in ListenerKeys |-> <<>>]

(* destroy() *)
destroy ==
    /\ envListeners' = envListeners \ DestroyListeners
    /\ listeners' = EmptyListeners
    /\ registered' = {}
    /\ lastOp' = BusOp("destroy", "ok", NoEvent, 0)
    /\ UNCHANGED <<now, lastEventTimestamp, handles, storage, cleanups, dispatched,
                   hookVars, chatVars, relayVars>>

(* time passes *)
Tick ==
    /\ now < MaxClock
    /\ now' = now + 1
    /\ lastOp' = BusOp("tick", "ok", NoEvent, 0)
    /\ UNCHANGED <<lastEventTimestamp, listeners, handles, envListeners, storage,
                   cleanups, dispatched, registered, hookVars, chatVars, relayVars>>

(* another tab broadcasts: it writes the relay key at the current time *)
otherTabBroadcast(type, conversationId, userId) ==
    /\ storage' = JSONstringify(ChatEvent(type, conversationId, userId, now))
    /\ lastOp' = BusOp("otherTabBroadcast", "ok",
                       ChatEvent(type, conversationId, userId, now), 0)
    /\ UNCHANGED <<now, lastEventTimestamp, listeners, handles, envListeners,
                   cleanups, dispatched, registered, hookVars, chatVars, relayVars>>

----------------------------------------------------------------------------
(* Sync hook: hooks/useChatSync.ts *)

TokenSubs == {NoValue, "", "u1"}

(* getCurrentUserId(): payload.sub || null, null when there is no token *)
getCurrentUserId(sub) == IF Truthy(sub) THEN sub ELSE NoValue

(* refreshTimeoutRef.current before the first setTimeout *)
NoTimer == 0

(* options holds the callbacks given, by the event type each one serves, and
   "enableAutoRefresh" when that option is true after the defaults.
   instance: the run that mounted the component; timers: the pending
   setTimeout callbacks of the auto-refresh effect, of this instance and of
   earlier ones; timeouts: the setTimeout calls made so far. *)
Unmounted ==
    [mounted |-> FALSE, currentUserId |-> NoValue, options |-> {},
     unsubscribers |-> <<>>, run |-> 0, instance |-> 0,
     refreshTimeoutRef |-> NoTimer, timers |-> {}, timeouts |-> 0]

AutoRefresh == "enableAutoRefresh"

(* a pending tick: the closure of the effect that scheduled it, with the
   onForceRefresh of its render (given or not) *)
Timer(id, instance, onForceRefresh) ==
    [id |-> id, instance |-> instance, onForceRefresh |-> onForceRefresh]

(* scheduleRefresh(): refreshTimeoutRef.current = setTimeout(tick,
   refreshInterval); the ref is the one of the instance that rendered the
   closure *)
scheduleRefresh(h, instance, onForceRefresh) ==
    LET id == h.timeouts + 1 IN
    [h EXCEPT !.timeouts = id,
              !.timers = @ \cup {Timer(id, instance, onForceRefresh)},
              !.refreshTimeoutRef = IF h.mounted /\ h.instance = instance
                                    THEN id ELSE @]

(* the auto-refresh effect: if (!enableAutoRefresh) return; scheduleRefresh() *)
timerEffect(h) ==
    IF AutoRefresh \in h.options
    THEN scheduleRefresh(h, h.instance, "force_refresh" \in h.options)
    ELSE h

(* the cleanup the auto-refresh effect returns:
   if (refreshTimeoutRef.current) clearTimeout(refreshTimeoutRef.current) *)
timerCleanup(h) ==
    IF AutoRefresh \in h.options /\ h.refreshTimeoutRef # NoTimer
    THEN [h EXCEPT !.timers = {t \in @ : t.id # h.refreshTimeoutRef}]
    ELSE h

(* the subscription effect: one subscribe() per callback the options give,
   in the order of the source *)
RECURSIVE subscribeAll(_, _, _, _, _)
subscribeAll(bus, types, options, run, uid) ==
    IF types = <<>> THEN bus
    ELSE subscribeAll(IF Head(types) \in options
                      THEN subscribeBus(bus, Head(types), "hook", run, uid)
                      ELSE bus,
                      Tail(types), options, run, uid)

(* the cleanup the effect returns: unsubscribers.forEach(u => u()) *)
RECURSIVE unsubscribeAll(_, _, _)
unsubscribeAll(ls, hs, regs) ==
    IF regs = <<>> THEN ls
    ELSE unsubscribeAll(unsubscribeListeners(ls, hs[Head(regs)]), hs, Tail(regs))

Range(seq) == {seq[i] : i \in 1..Len(seq)}

HookOp(op, outcome) ==
    [op |-> op, outcome |-> outcome, event |-> NoEvent,
     before |-> lastEventTimestamp, result |-> NoDispatch, arg |-> 0,
     calls |-> <<>>]

(* runs the subscription effect for a render with the given options *)
runEffect(ls, hs, options, run, uid) ==
    subscribeAll([listeners |-> ls, handles |-> hs], HookTypes, options, run, uid)

(* a component calling useChatSync(options) mounts *)
mount(options) ==
    /\ ~hook.mounted
    /\ hook.run < MaxEffectRuns
    /\ AutoRefresh \in options => hook.timeouts < MaxTimeouts
    /\ LET uid == getCurrentUserId(token)
           run == hook.run + 1
           bus == runEffect(listeners, handles, options, run, uid)
           regs == [i \in 1..(Len(bus.handles) - Len(handles)) |-> Len(handles) + i]
       IN /\ listeners' = bus.listeners
          /\ handles' = bus.handles
          /\ registered' = registered \cup Range(regs)
          /\ hook' = timerEffect(
                         [mounted |-> TRUE, currentUserId |-> uid,
                          options |-> options, unsubscribers |-> regs,
                          run |-> run, instance |-> run,
                          refreshTimeoutRef |-> NoTimer, timers |-> hook.timers,
                          timeouts |-> hook.timeouts])
    /\ lastOp' = HookOp("mount", "ok")
    /\ UNCHANGED <<now, lastEventTimestamp, envListeners, storage, cleanups,
                   dispatched, token, chatVars, relayVars>>

(* the component renders again; the subscription effect runs again when
   currentUserId or a callback in its dependency list changed, the
   auto-refresh effect when onForceRefresh changed (changed: the parent
   passed new callback functions) *)
rerender(changed) ==
    /\ hook.mounted
    /\ LET uid == getCurrentUserId(token) IN
       IF changed \/ uid # hook.currentUserId
       THEN /\ hook.run < MaxEffectRuns
            /\ (changed /\ AutoRefresh \in hook.options)
                   => hook.timeouts < MaxTimeouts
            /\ LET run == hook.run + 1
                   cleaned == unsubscribeAll(listeners, handles, hook.unsubscribers)
                   bus == runEffect(cleaned, handles, hook.options, run, uid)
                   regs == [i \in 1..(Len(bus.handles) - Len(handles)) |->
                               Len(handles) + i]
               IN /\ listeners' = bus.listeners
                  /\ handles' = bus.handles
                  /\ registered' = (registered \ Range(hook.unsubscribers))
                                       \cup Range(regs)
                  /\ hook' = LET h == [hook EXCEPT !.currentUserId = uid,
                                                   !.unsubscribers = regs,
                                                   !.run = run]
                              IN IF changed THEN timerEffect(timerCleanup(h))
                                 ELSE h
            /\ lastOp' = HookOp("rerender", "effect")
       ELSE /\ UNCHANGED <<listeners, handles, registered, hook>>
            /\ lastOp' = HookOp("rerender", "same")
    /\ UNCHANGED <<now, lastEventTimestamp, envListeners, storage, cleanups,
                   dispatched, token, chatVars, relayVars>>

(* what unmounting leaves of the hook: the timers its cleanup did not clear *)
unmounted(h) ==
    [Unmounted EXCEPT !.run = h.run, !.timers = timerCleanup(h).timers,
                      !.timeouts = h.timeouts]

(* the component unmounts: the cleanups of both effects run *)
unmount ==
    /\ hook.mounted
    /\ listeners' = unsubscribeAll(listeners, handles, hook.unsubscribers)
    /\ registered' = registered \ Range(hook.unsubscribers)
    /\ hook' = unmounted(hook)
    /\ lastOp' = HookOp("unmount", "ok")
    /\ UNCHANGED <<now, lastEventTimestamp, handles, envListeners, storage,
                   cleanups, dispatched, token, chatVars, relayVars>>

(* the notifier functions the hook returns: triggerRefresh,
   notifyConversationCreated, ... call the bus with currentUserId *)
notify(type, conversationId, written) ==
    /\ hook.mounted
    /\ broadcast(type, conversationId, hook.currentUserId, written)
    /\ lastOp' = BusOp("notify", IF written THEN "written" ELSE "write_failed",
                       broadcastEvent(type, conversationId, hook.currentUserId), 0)
    /\ UNCHANGED <<now, listeners, handles, envListeners, dispatched, registered,
                   hookVars, chatVars, relayVars>>

(* login, logout or a login in another tab rewrites localStorage['token'] *)
setToken(sub) ==
    /\ sub # token
    /\ token' = sub
    /\ lastOp' = HookOp("setToken", "ok")
    /\ UNCHANGED <<busVars, hook, chatVars, relayVars>>

(* what the options callback did when the tick called it *)
CallbackOutcomes == {"returned", "threw", "unmounted"}

TimerOp(t, hidden, did, live, scheduled) ==
    [op |-> "refreshTimeout", outcome |-> did, event |-> NoEvent,
     before |-> lastEventTimestamp, result |-> NoDispatch, arg |-> t.id,
     calls |-> IF did \in CallbackOutcomes
               THEN <<[cb |-> OptionName("force_refresh"),
                       conversationId |-> NoValue]>>
               ELSE <<>>,
     hidden |-> hidden, onForceRefresh |-> t.onForceRefresh, live |-> live,
     scheduled |-> scheduled]

(* the callback handed to setTimeout runs:
   if (!document.hidden && onForceRefresh) onForceRefresh(); scheduleRefresh()
   did: "skipped" when the callback is not called, else what the callback
   did: it returned, it threw, or it made the component unmount before it
   returned (the cleanups ran inside the call) *)
tick(id, hidden, did) ==
    \E t \in hook.timers :
        /\ t.id = id
        /\ LET live == hook.mounted /\ t.instance = hook.instance
               called == ~hidden /\ t.onForceRefresh
               fired == [hook EXCEPT !.timers = @ \ {t}]
               inside == did = "unmounted"
               after == IF inside THEN unmounted(fired) ELSE fired
               reschedules == did # "threw"
           IN /\ IF called THEN did \in CallbackOutcomes ELSE did = "skipped"
              /\ inside => hook.mounted
              /\ reschedules => hook.timeouts < MaxTimeouts
              /\ hook' = IF reschedules
                         THEN scheduleRefresh(after, t.instance,
                                              t.onForceRefresh)
                         ELSE after
              /\ listeners' = IF inside
                              THEN unsubscribeAll(listeners, handles,
                                                  hook.unsubscribers)
                              ELSE listeners
              /\ registered' = IF inside
                               THEN registered \ Range(hook.unsubscribers)
                               ELSE registered
              /\ lastOp' = TimerOp(t, hidden, did, live,
                                   IF reschedules THEN 1 ELSE 0)
        /\ UNCHANGED <<now, lastEventTimestamp, handles, envListeners, storage,
                       cleanups, dispatched, token, chatVars, relayVars>>

----------------------------------------------------------------------------
(* Chat service: services/chats.ts.  A call is a record that advances at
   each await; "published" means handed to the bus (chatEventBus.xxx). *)

ConversationsPath == "/api/chat/conversations"

ConversationPath == "/api/chat/conversations/{id}"

MessagesPath == "/api/chat/conversations/{id}/messages"

Request(method, path, id) == [method |-> method, path |-> path, id |-> id]

needsConversation_absentOnly(conversationId) == ~Truthy(conversationId)

(* !conversationId || conversationId === 'new' *)
needsConversation(conversationId) ==
    ~Truthy(conversationId) \/ conversationId = "new"

(* the request a call issues before its first await, and where it waits *)
firstStep(op, conversationId) ==
    CASE op = "createConversation" ->
            [pc |-> "create", request |-> Request("POST", ConversationsPath, NoValue)]
      [] op = "sendMessageToConversation" ->
            [pc |-> "post", request |-> Request("POST", MessagesPath, conversationId)]
      [] op \in {"sendMessageWithFiles", "sendMessage"} ->
            IF needsConversation(conversationId)
            THEN [pc |-> "create",
                  request |-> Request("POST", ConversationsPath, NoValue)]
            ELSE [pc |-> "post",
                  request |-> Request("POST", MessagesPath, conversationId)]
      [] op = "updateConversation" ->
            [pc |-> "put", request |-> Request("PUT", ConversationPath, conversationId)]
      [] op = "deleteConversation" ->
            [pc |-> "delete",
             request |-> Request("DELETE", ConversationPath, conversationId)]

(* the call up to its first await; caller, initial and pre belong to the
   ChatWrapper handler that awaits it ("direct" for any other caller) *)
startCall(op, conversationId, uid, caller, initial, pre) ==
    LET step == firstStep(op, conversationId) IN
    [op |-> op, caller |-> caller, state |-> "pending", pc |-> step.pc,
     provided |-> conversationId, conversationId |-> conversationId,
     userId |-> uid, requests |-> <<step.request>>, responses |-> <<>>,
     events |-> <<>>, response |-> NoValue, initial |-> initial, pre |-> pre]

publishes_always(ok) == TRUE

(* the chatEventBus call follows the await inside the try block *)
publishes(ok) == ok

EventOf(pc) ==
    CASE pc = "create" -> "conversation_created"
      [] pc = "post" -> "message_sent"
      [] pc = "get" -> "conversation_updated"
      [] pc = "delete" -> "conversation_deleted"
      [] pc = "put" -> NoValue

(* the call from the response to its current request up to its next await
   or its end: ok is the outcome of the request, newId the id of the created
   conversation, responseId the conversation_id of the ChatResponse, uid
   getCurrentUserId() now, t Date.now() *)
respond(c, ok, newId, responseId, uid, t) ==
    LET answered == [c EXCEPT !.responses = Append(@, ok)]
        target == IF c.pc = "create" THEN newId ELSE c.conversationId
        published ==
            IF c.pc # "put" /\ publishes(ok)
            THEN [answered EXCEPT !.events =
                     Append(@, ChatEvent(EventOf(c.pc), target, c.userId, t))]
            ELSE answered
    IN IF ~ok
       THEN [published EXCEPT !.state = "rejected", !.pc = "done"]
       ELSE CASE c.pc = "create" /\ c.op = "createConversation" ->
                    [published EXCEPT !.state = "resolved", !.pc = "done",
                                      !.conversationId = newId]
              [] c.pc = "create" /\ c.op = "sendMessageWithFiles" ->
                    [published EXCEPT !.pc = "post", !.conversationId = newId,
                        !.requests = Append(@, Request("POST", MessagesPath, newId))]
              [] c.pc = "create" /\ c.op = "sendMessage" ->
                    [published EXCEPT !.pc = "post", !.conversationId = newId,
                        !.userId = uid,
                        !.requests = Append(@, Request("POST", MessagesPath, newId))]
              [] c.pc = "put" ->
                    [published EXCEPT !.pc = "get",
                        !.requests = Append(@, Request("GET", ConversationPath,
                                                       c.conversationId))]
              [] c.pc = "post" ->
                    [published EXCEPT !.state = "resolved", !.pc = "done",
                                      !.response = responseId]
              [] c.pc \in {"get", "delete"} ->
                    [published EXCEPT !.state = "resolved", !.pc = "done"]

ChatOp(op, outcome, arg, callbacks) ==
    [op |-> op, outcome |-> outcome, event |-> NoEvent,
     before |-> lastEventTimestamp, result |-> NoDispatch, arg |-> arg,
     calls |-> callbacks]

(* the bus side of a step of call c that became call d *)
publishStep(c, d, written) ==
    IF Len(d.events) > Len(c.events)
    THEN LET event == d.events[Len(d.events)] IN
         broadcast(event.type, event.conversationId, event.userId, written)
    ELSE UNCHANGED <<storage, lastEventTimestamp, cleanups>>

broadcastReturns_rethrows(written) == written

(* broadcast() wraps the write in try/catch and logs: it returns to its
   caller whether or not setItem succeeded *)
broadcastReturns(written) == TRUE

(* the chatEventBus call sits inside the try block of the operation: an
   exception out of it would reject the call *)
settle(c, d, written) ==
    IF Len(d.events) > Len(c.events) /\ ~broadcastReturns(written)
    THEN [d EXCEPT !.state = "rejected", !.pc = "done"]
    ELSE d

(* a component other than the wrapper calls the chat service *)
callService(op, conversationId) ==
    /\ Len(calls) < MaxCalls
    /\ calls' = Append(calls, startCall(op, conversationId, getCurrentUserId(token),
                                        "direct", FALSE, <<>>))
    /\ lastOp' = ChatOp("callService", "pending", Len(calls) + 1, <<>>)
    /\ UNCHANGED <<busVars, hookVars, wrapper, relayVars>>
    /\ UNCHANGED messageRating

(* the server answers the pending request of a call made directly *)
serviceResponse(i, ok, newId, responseId, written) ==
    /\ i \in 1..Len(calls)
    /\ calls[i].state = "pending"
    /\ calls[i].caller = "direct"
    /\ LET d == settle(calls[i],
                       respond(calls[i], ok, newId, responseId,
                               getCurrentUserId(token), now),
                       written)
       IN /\ calls' = [calls EXCEPT ![i] = d]
          /\ publishStep(calls[i], d, written)
          /\ lastOp' = ChatOp("serviceResponse", d.state, i, <<>>)
    /\ UNCHANGED <<now, listeners, handles, envListeners, dispatched, registered,
                   hookVars, wrapper>>
    /\ UNCHANGED messageRating

----------------------------------------------------------------------------
(* services/chats.ts: transformMessagesToDisplay.  A call is modelled with
   the array it was given as it is after the call, next to what it returned,
   so that a write to the argument would show. *)

NullRating == 0

NoData == [present |-> FALSE, blocks |-> NoValue]

ResponseData(blocks) == [present |-> TRUE, blocks |-> blocks]

ServerMessage(id, message_type, response_data, rating) ==
    [id |-> id, message_type |-> message_type, content |-> "content",
     intent |-> NoValue, response_data |-> response_data,
     created_at |-> "created_at", rating |-> rating]

displayRole_always(message_type) == "assistant"

(* msg.message_type === 'USER' ? 'user' : 'assistant' *)
displayRole(message_type) ==
    IF message_type = "USER" THEN "user" ELSE "assistant"

(* the object the map callback builds for msg *)
displayMessage(msg) ==
    LET role == displayRole(msg.message_type) IN
    [role |-> role,
     content |-> msg.content,
     blocks |-> IF role = "assistant" /\ msg.response_data.present
                   /\ Truthy(msg.response_data.blocks)
                THEN msg.response_data.blocks ELSE NoValue,
     response_data |-> msg.response_data,
     intent |-> msg.intent,
     id |-> msg.id,
     timestamp |-> msg.created_at,
     rating |-> msg.rating]

(* messages.map(msg => ...): the array returned, and the argument after the
   call, which map and the callback leave as it was *)
transformMessagesToDisplay(messages) ==
    [display |-> [i \in 1..Len(messages) |-> displayMessage(messages[i])],
     messages |-> messages]

TransformOp(input, first, second, times) ==
    [op |-> "transformMessagesToDisplay", outcome |-> "ok", event |-> NoEvent,
     before |-> lastEventTimestamp, result |-> NoDispatch, arg |-> times,
     calls |-> <<>>, input |-> input, messages |-> second.messages,
     first |-> first.display, display |-> second.display]

(* getConversation hands data.messages to the transform *)
transform(messages) ==
    /\ lastOp.op # "transformMessagesToDisplay"
    /\ LET out == transformMessagesToDisplay(messages) IN
       lastOp' = TransformOp(messages, out, out, 1)
    /\ UNCHANGED <<busVars, hookVars, chatVars, relayVars>>

(* the transform is applied again to the same array *)
transformAgain ==
    /\ lastOp.op = "transformMessagesToDisplay"
    /\ lastOp.arg = 1
    /\ LET out == transformMessagesToDisplay(lastOp.messages) IN
       lastOp' = TransformOp(lastOp.input,
                             [display |-> lastOp.display, messages |-> lastOp.messages],
                             out, 2)
    /\ UNCHANGED <<busVars, hookVars, chatVars, relayVars>>

----------------------------------------------------------------------------
(* Rating a message: services/chatRating.ts and the MessageRating component
   of components/chat/ChatMessages.tsx.  A rating is 1, -1 or null. *)

NewMessageRating(initialRating) ==
    [rating |-> initialRating, isSubmitting |-> FALSE, error |-> NoValue,
     submitted |-> NullRating, timers |-> 0]

(* the status of the response to the POST; NoResponse when the request got
   no response at all *)
NoResponse == 0

Statuses == {200, 400, 401, 403, 404, 500, NoResponse}

NotFoundMessage == "Message or conversation not found"

PermissionMessage == "You do not have permission to rate this message"

InvalidMessage == "Invalid rating value"

GenericMessage == "Failed to submit rating. Please try again."

(* the catch block of rateMessageInConversation: the message of the Error it
   throws for error.response?.status and error.response.data?.detail *)
rateError(status, detail) ==
    IF status = 404 THEN NotFoundMessage
    ELSE IF status = 403 THEN PermissionMessage
    ELSE IF status = 400 THEN (IF Truthy(detail) THEN detail ELSE InvalidMessage)
    ELSE GenericMessage

RatingOp(op, outcome, status) ==
    [op |-> op, outcome |-> outcome, event |-> NoEvent,
     before |-> lastEventTimestamp, result |-> NoDispatch, arg |-> status,
     calls |-> <<>>, rating |-> messageRating.rating]

(* handleRate(newRating) up to its await; the buttons are disabled while
   isSubmitting *)
handleRate(newRating) ==
    /\ ~messageRating.isSubmitting
    /\ IF messageRating.rating = newRating
       THEN /\ UNCHANGED messageRating
            /\ lastOp' = RatingOp("handleRate", "ignored", NoResponse)
       ELSE /\ messageRating' = [messageRating EXCEPT
                                    !.isSubmitting = TRUE, !.error = NoValue,
                                    !.submitted = newRating]
            /\ lastOp' = RatingOp("handleRate", "submitting", NoResponse)
    /\ UNCHANGED <<busVars, hookVars, calls, wrapper, relayVars>>

(* the POST settles and handleRate continues: try, catch, finally *)
rateResponse(status, detail) ==
    /\ messageRating.isSubmitting
    /\ status # 200 => messageRating.timers < MaxErrorTimers
    /\ IF status = 200
       THEN /\ messageRating' = [messageRating EXCEPT
                                    !.rating = messageRating.submitted,
                                    !.isSubmitting = FALSE]
            /\ lastOp' = RatingOp("rateResponse", "rated", status)
       ELSE /\ messageRating' = [messageRating EXCEPT
                                    !.error = rateError(status, detail),
                                    !.isSubmitting = FALSE,
                                    !.timers = @ + 1]
            /\ lastOp' = RatingOp("rateResponse", "failed", status)
    /\ UNCHANGED <<busVars, hookVars, calls, wrapper, relayVars>>

(* setTimeout(() => setError(null), 3000) of a failed rating runs *)
clearRatingError ==
    /\ messageRating.timers > 0
    /\ messageRating' = [messageRating EXCEPT !.error = NoValue, !.timers = @ - 1]
    /\ lastOp' = RatingOp("clearRatingError", "ok", NoResponse)
    /\ UNCHANGED <<busVars, hookVars, calls, wrapper, relayVars>>

----------------------------------------------------------------------------
(* Chat wrapper: components/chat/ChatWrapper.tsx.  busy is the state,
   busyRendered the value the callbacks of the committed render closed over.
   React commits pending updates before it handles a user event, so a submit
   sees the current state; the invocations of one effect share a render.
   The effects of the mount run before the first user event. *)

Message(role, content) == [role |-> role, content |-> content]

ErrorContent(caller) ==
    IF caller = "handleSendWithFiles"
    THEN "Sorry, I encountered an error processing your files. Please try again."
    ELSE "Sorry, I encountered an error processing your message. Please try again."

NewWrapper(conversationId, initialMessage, initialMessages) ==
    [conversationId |-> conversationId, initialMessage |-> initialMessage,
     initialAtMount |-> initialMessage, messages |-> initialMessages,
     busy |-> FALSE, busyRendered |-> FALSE, error |-> NoValue,
     initialMessageProcessed |-> FALSE, invocations |-> 0, initialSends |-> 0,
     mounted |-> TRUE]

WrapperSends == Cardinality({i \in 1..Len(calls) : calls[i].caller # "direct"})

optimistic_late(messages, text) == messages

(* setMessages(prev => [...prev, userMessage]), before the await *)
optimistic(messages, text) == Append(messages, Message("user", text))

busyGuard_none(busy) == FALSE

(* if (busy) return: busy is the value the callback closed over *)
busyGuard(busy) == busy

(* the handler up to its await: guard, setBusy, setError, optimistic append,
   chatService call; flush tells whether React commits the updates at once *)
handlerStart(w, cs, op, caller, text, initial, flush, uid) ==
    IF busyGuard(w.busyRendered)
    THEN [wrapper |-> w, calls |-> cs, outcome |-> "ignored"]
    ELSE [wrapper |-> [w EXCEPT
                          !.busy = TRUE, !.error = NoValue,
                          !.busyRendered = IF flush THEN TRUE ELSE @,
                          !.messages = optimistic(@, text),
                          !.initialSends = IF initial THEN @ + 1 ELSE @],
          calls |-> Append(cs, startCall(op, w.conversationId, uid, caller,
                                         initial, w.messages)),
          outcome |-> "sending"]

(* the user submits text (ChatInput onSend, or a block 'query' action) *)
handleSendMessage(text) ==
    /\ wrapper.mounted
    /\ WrapperSends < MaxSends
    /\ wrapper.invocations > 0
    /\ wrapper.busyRendered = wrapper.busy
    /\ LET start == handlerStart(wrapper, calls, "sendMessage", "handleSendMessage",
                                 text, FALSE, TRUE, getCurrentUserId(token))
       IN /\ wrapper' = start.wrapper
          /\ calls' = start.calls
          /\ lastOp' = ChatOp("handleSendMessage", start.outcome, Len(start.calls), <<>>)
    /\ UNCHANGED <<busVars, hookVars, relayVars>>
    /\ UNCHANGED messageRating

(* the user submits text with files (ChatInput onSendWithFiles) *)
handleSendWithFiles(text) ==
    /\ wrapper.mounted
    /\ WrapperSends < MaxSends
    /\ wrapper.invocations > 0
    /\ wrapper.busyRendered = wrapper.busy
    /\ LET start == handlerStart(wrapper, calls, "sendMessageWithFiles",
                                 "handleSendWithFiles", text, FALSE, TRUE,
                                 getCurrentUserId(token))
       IN /\ wrapper' = start.wrapper
          /\ calls' = start.calls
          /\ lastOp' = ChatOp("handleSendWithFiles", start.outcome, Len(start.calls), <<>>)
    /\ UNCHANGED <<busVars, hookVars, relayVars>>
    /\ UNCHANGED messageRating

shouldProcessInitial_noLatch(initialMessage, processed, busy) ==
    Truthy(initialMessage) /\ ~busy

(* initialMessage && !initialMessageProcessed.current && !busy *)
shouldProcessInitial(initialMessage, processed, busy) ==
    Truthy(initialMessage) /\ ~processed /\ ~busy

(* the effect with dependency [initialMessage] is invoked: on mount, again
   by a framework that invokes mount effects twice, and after the parent
   changed the initialMessage prop *)
initialMessageEffect ==
    /\ wrapper.mounted
    /\ wrapper.invocations < MaxInvocations
    /\ WrapperSends < MaxSends
    /\ IF shouldProcessInitial(wrapper.initialMessage,
                               wrapper.initialMessageProcessed, wrapper.busyRendered)
       THEN LET latched == [wrapper EXCEPT !.initialMessageProcessed = TRUE,
                                           !.invocations = @ + 1]
                start == handlerStart(latched, calls, "sendMessage",
                                      "handleSendMessage", wrapper.initialMessage,
                                      TRUE, FALSE, getCurrentUserId(token))
            IN /\ wrapper' = start.wrapper
               /\ calls' = start.calls
               /\ lastOp' = ChatOp("initialMessageEffect", start.outcome,
                                   Len(start.calls), <<>>)
       ELSE /\ wrapper' = [wrapper EXCEPT !.invocations = @ + 1]
            /\ UNCHANGED calls
            /\ lastOp' = ChatOp("initialMessageEffect", "skipped", 0, <<>>)
    /\ UNCHANGED <<busVars, hookVars, relayVars>>
    /\ UNCHANGED messageRating

(* the parent stops rendering the wrapper, or the route changes *)
unmountWrapper ==
    /\ wrapper.mounted
    /\ wrapper.invocations > 0
    /\ wrapper' = [wrapper EXCEPT !.mounted = FALSE]
    /\ lastOp' = ChatOp("unmountWrapper", "ok", 0, <<>>)
    /\ UNCHANGED <<busVars, hookVars, calls, relayVars, messageRating>>

(* React commits the pending state updates: the callbacks close over them *)
render ==
    /\ wrapper.mounted
    /\ wrapper.busyRendered # wrapper.busy
    /\ wrapper' = [wrapper EXCEPT !.busyRendered = wrapper.busy]
    /\ lastOp' = ChatOp("render", "ok", 0, <<>>)
    /\ UNCHANGED <<busVars, hookVars, calls, relayVars>>
    /\ UNCHANGED messageRating

(* the parent renders the wrapper with another initialMessage: the render
   commits the state as well *)
setInitialMessage(message) ==
    /\ wrapper.mounted
    /\ wrapper.invocations > 0
    /\ message # wrapper.initialMessage
    /\ wrapper' = [wrapper EXCEPT !.initialMessage = message,
                                  !.busyRendered = wrapper.busy]
    /\ lastOp' = ChatOp("setInitialMessage", "ok", 0, <<>>)
    /\ UNCHANGED <<busVars, hookVars, calls, relayVars>>
    /\ UNCHANGED messageRating

rollback_none(messages) == messages

(* setMessages(prev => prev.slice(0, -1)) *)
rollback(messages) == SubSeq(messages, 1, Len(messages) - 1)

(* what the try block calls after it appended the assistant message *)
successCallbacks(c, onNewRoute) ==
    (IF ~Truthy(c.provided) /\ Truthy(c.response)
     THEN <<"onConversationCreated">>
          \o (IF onNewRoute THEN <<"router.replace">> ELSE <<>>)
     ELSE <<>>)
    \o (IF Truthy(c.response) THEN <<"onConversationUpdated">> ELSE <<>>)

(* the catch block and finally *)
handlerCatch(w, c) ==
    [w EXCEPT !.messages = Append(rollback(@),
                                  Message("assistant", ErrorContent(c.caller))),
              !.error = "error.message", !.busy = FALSE]

(* the handler after its await: try block on success, catch block on
   failure, finally; throws tells whether the first callback the try block
   calls throws, which takes the handler to its catch block *)
handlerEnd(w, c, onNewRoute, throws) ==
    IF c.state = "resolved"
    THEN LET appended == [w EXCEPT !.messages =
                                      Append(@, Message("assistant", "response"))]
             callbacks == successCallbacks(c, onNewRoute)
         IN IF throws /\ callbacks # <<>>
            THEN [wrapper |-> handlerCatch(appended, c),
                  callbacks |-> <<Head(callbacks)>>]
            ELSE [wrapper |-> [appended EXCEPT !.busy = FALSE],
                  callbacks |-> callbacks]
    ELSE [wrapper |-> handlerCatch(w, c), callbacks |-> <<>>]

(* the server answers the pending request of a wrapper's send; when the call
   settles the handler that awaits it continues in the same task, mounted or
   not; React drops the state updates of a component that has unmounted *)
sendResponse(i, ok, newId, responseId, written, onNewRoute, throws) ==
    /\ i \in 1..Len(calls)
    /\ calls[i].state = "pending"
    /\ calls[i].caller # "direct"
    /\ LET d == settle(calls[i],
                       respond(calls[i], ok, newId, responseId,
                               getCurrentUserId(token), now),
                       written)
       IN /\ calls' = [calls EXCEPT ![i] = d]
          /\ publishStep(calls[i], d, written)
          /\ IF d.state = "pending"
             THEN /\ UNCHANGED wrapper
                  /\ lastOp' = ChatOp("sendResponse", "pending", i, <<>>)
             ELSE LET end == handlerEnd(wrapper, d, onNewRoute, throws) IN
                  /\ wrapper' = IF wrapper.mounted THEN end.wrapper ELSE wrapper
                  /\ lastOp' = ChatOp("sendResponse", d.state, i, end.callbacks)
    /\ UNCHANGED <<now, listeners, handles, envListeners, dispatched, registered,
                   hookVars, relayVars>>
    /\ UNCHANGED messageRating

----------------------------------------------------------------------------
(* The bus alone: plain listeners, relayed notifications, own broadcasts *)

BusInit ==
    /\ now = 1
    /\ lastEventTimestamp = 0
    /\ listeners = EmptyListeners
    /\ handles = <<>>
    /\ envListeners = ConstructorListeners
    /\ storage = NullValue
    /\ cleanups = {}
    /\ dispatched = <<>>
    /\ registered = {}
    /\ peer = NewInstance
    /\ twin = NewTwin

(* the events the other tabs relay in the bus specification *)
RelayShapes == {<<"message_sent", "c1", "u1">>, <<"force_refresh", NoValue, NoValue>>}

RelayedEvents ==
    {ChatEvent(s[1], s[2], s[3], t) : s \in RelayShapes, t \in 1..now}

Notifications ==
    {[key |-> RelayKey, newValue |-> JSONstringify(e)] : e \in RelayedEvents}
    \cup {[key |-> RelayKey, newValue |-> NullValue],
          [key |-> RelayKey, newValue |-> Garbage],
          [key |-> "token", newValue |-> Garbage]}

BusKeys == {"message_sent", Wildcard}

Init ==
    /\ BusInit
    /\ token = NoValue
    /\ hook = Unmounted
    /\ calls = <<>>
    /\ messageRating = NewMessageRating(NullRating)
    /\ wrapper = NewWrapper(NoValue, NoValue, <<>>)
    /\ lastOp = BusOp("new", "ok", NoEvent, 0)

Deliver == \E n \in Notifications : handleStorageEvent(n.key, n.newValue)

Subscribe ==
    /\ Len(handles) < MaxRegs
    /\ \E k \in BusKeys, fn \in Callbacks : subscribe(k, fn, 0, NoValue)

Unsubscribe == \E reg \in 1..Len(handles) : unsubscribe(reg)

LocalBroadcast ==
    /\ \E s \in RelayShapes, written \in BOOLEAN : Broadcast(s[1], s[2], s[3], written)
    /\ UNCHANGED relayVars

Cleanup ==
    /\ \E t \in cleanups : cleanup(t)
    /\ UNCHANGED relayVars

Focus == \E written \in BOOLEAN : handleWindowFocus(written)

Visibility == \E hidden \in BOOLEAN, written \in BOOLEAN :
                  handleVisibilityChange(hidden, written)

OtherTab == \E s \in RelayShapes : otherTabBroadcast(s[1], s[2], s[3])

Destroy == destroy

(* the relay: notifications, own broadcasts, cleanup timers *)
Next ==
    \/ Tick
    \/ Deliver
    \/ LocalBroadcast
    \/ Cleanup
    \/ Focus
    \/ Visibility
    \/ OtherTab

Spec == Init /\ [][Next]_vars

(* subscriptions: subscribe, unsubscribe, destroy and the dispatch of the
   first relayed event to whatever is subscribed then *)
NextSub ==
    \/ Deliver
    \/ Subscribe
    \/ Unsubscribe
    \/ Destroy

SpecSub == Init /\ [][NextSub]_vars

----------------------------------------------------------------------------
(* Own broadcasts of a tab that has listeners: subscribe, broadcast, the
   clock, and the notifications the window delivers, the copy of the tab's
   own event among them *)

SubscribePlain ==
    /\ Len(handles) < MaxRegs
    /\ \E k \in BusKeys : subscribe(k, "f", 0, NoValue)

NextOwn ==
    \/ Tick
    \/ SubscribePlain
    \/ LocalBroadcast
    \/ Deliver

SpecOwn == Init /\ [][NextOwn]_vars

----------------------------------------------------------------------------
(* The cleanup of the relay key: this tab writes, and its cleanup timers run,
   fail or stay pending; another tab receives the storage events in the
   order they were fired.  The twin is that tab in the world where no
   cleanup timer ever runs, under the same broadcasts.  The relay key is
   writable here. *)

WriterBroadcast ==
    /\ Len(peer.pending) < MaxPending
    /\ Len(twin.pending) < MaxPending
    /\ \E s \in RelayShapes :
          /\ Broadcast(s[1], s[2], s[3], TRUE)
          /\ peer' = [peer EXCEPT !.pending = @ \o storageEvents(storage, storage')]
          /\ twin' = [twin EXCEPT
                         !.pending = @ \o storageEvents(twin.storage, storage'),
                         !.storage = storage',
                         !.missed = @ \/ (storage # storage' /\ twin.storage = storage')]

WriterCleanup ==
    /\ \E t \in cleanups, fails \in BOOLEAN :
          IF fails THEN cleanupFails(t) ELSE cleanup(t)
    /\ peer' = [peer EXCEPT !.pending = @ \o storageEvents(storage, storage')]
    /\ UNCHANGED twin

PeerReceives ==
    /\ peer.pending # <<>>
    /\ peer' = [received(peer, Head(peer.pending)) EXCEPT !.pending = Tail(@)]
    /\ lastOp' = BusOp("peerReceives", receivedOutcome(peer, Head(peer.pending)),
                       NoEvent, 0)
    /\ UNCHANGED <<busVars, hookVars, chatVars, twin>>

TwinReceives ==
    /\ twin.pending # <<>>
    /\ twin' = [received(twin, Head(twin.pending)) EXCEPT !.pending = Tail(@)]
    /\ lastOp' = BusOp("twinReceives", receivedOutcome(twin, Head(twin.pending)),
                       NoEvent, 0)
    /\ UNCHANGED <<busVars, hookVars, chatVars, peer>>

NextCleanup ==
    \/ Tick
    \/ WriterBroadcast
    \/ WriterCleanup
    \/ PeerReceives
    \/ TwinReceives

SpecCleanup == Init /\ [][NextCleanup]_vars

----------------------------------------------------------------------------
(* Any writer of the relay key: the window delivers whatever string was
   stored under it, a ChatEvent of the bus or not *)

MalformedPayloads ==
    {Garbage,
     [kind |-> "json", present |-> {"type", "conversationId"},
      value |-> ChatEvent("message_sent", "c1", NoValue, NoTimestamp)]}
    \cup {[kind |-> "json", present |-> {"type", "timestamp"},
           value |-> ChatEvent("bogus", NoValue, NoValue, t)] : t \in 1..now}

RawNotifications ==
    {Notification(p) : p \in MalformedPayloads}
    \cup {Notification(JSONstringify(ChatEvent("message_sent", "c1", "u1", t))) :
              t \in 1..now}

DeliverRaw ==
    /\ \E n \in RawNotifications : handleStorageEvent(n.key, n.newValue)
    /\ Len(dispatched) < MaxDispatched

NextRaw ==
    \/ Tick
    \/ SubscribePlain
    \/ DeliverRaw

SpecRaw == Init /\ [][NextRaw]_vars

----------------------------------------------------------------------------
(* The hook on the bus: the dispatch of the first relayed event, of any type
   and origin, to a hook in any state its renders can bring it to *)

SyncConversationIds == {NoValue, "c1"}

SyncUserIds == {NoValue, "u1", "u2"}

SyncShapes ==
    (EventTypes \X SyncConversationIds \X SyncUserIds)
        \cup {<<"message_sent", "", "u2">>}

SyncEvents == {ChatEvent(s[1], s[2], s[3], t) : s \in SyncShapes, t \in 1..now}

OptionSets == {EventTypes, {"message_sent", "force_refresh"}}

DeliverSync == \E e \in SyncEvents : handleStorageEvent(RelayKey, JSONstringify(e))

Mount == \E options \in OptionSets : mount(options)

Rerender == \E changed \in BOOLEAN : rerender(changed)

Unmount == unmount

SetToken == \E sub \in TokenSubs : setToken(sub)

NextSync ==
    \/ DeliverSync
    \/ Mount
    \/ Rerender
    \/ Unmount
    \/ SetToken

SpecSync == Init /\ [][NextSync]_vars

----------------------------------------------------------------------------
(* The hook's auto-refresh timer: a hook that mounts with or without
   auto-refresh and onForceRefresh, its ticks with the document hidden or
   visible, renders, unmounts, and force_refresh events relayed to it *)

TimerOptionSets ==
    {{AutoRefresh, "force_refresh"}, {AutoRefresh}, {"force_refresh"}}

MountTimer == \E options \in TimerOptionSets : mount(options)

TimerTick ==
    \E id \in 1..MaxTimeouts, hidden \in BOOLEAN,
       did \in CallbackOutcomes \cup {"skipped"} : tick(id, hidden, did)

DeliverRefresh ==
    \E u \in {NoValue, "u2"}, t \in 1..now :
        handleStorageEvent(RelayKey,
                           JSONstringify(ChatEvent("force_refresh", NoValue, u, t)))

NextTimer ==
    \/ MountTimer
    \/ Rerender
    \/ Unmount
    \/ TimerTick
    \/ DeliverRefresh

SpecTimer == Init /\ [][NextTimer]_vars

----------------------------------------------------------------------------
(* Two tabs: this tab's user calls the chat service, whose events go through
   the relay key to another live tab; that tab gains focus now and then and
   so broadcasts itself; the clock is the one both tabs read *)

(* the user of this tab is logged in as u1 or not logged in *)
TabsInit ==
    /\ BusInit
    /\ token \in {NoValue, "u1"}
    /\ hook = Unmounted
    /\ calls = <<>>
    /\ messageRating = NewMessageRating(NullRating)
    /\ wrapper = NewWrapper(NoValue, NoValue, <<>>)
    /\ lastOp = BusOp("new", "ok", NoEvent, 0)

TabInputs ==
    {<<"sendMessage", NoValue>>, <<"sendMessageToConversation", "c0">>}

TabCall == \E in \in TabInputs : callService(in[1], in[2])

TabResponse ==
    /\ Len(peer.pending) < MaxPending
    /\ \E i \in 1..Len(calls), ok \in BOOLEAN, written \in BOOLEAN :
          serviceResponse(i, ok, "c1", calls[i].conversationId, written)
    /\ peer' = [peer EXCEPT !.pending = @ \o storageEvents(storage, storage')]
    /\ UNCHANGED twin

(* the window of the other tab delivers the next storage event *)
TabReceives ==
    /\ peer.pending # <<>>
    /\ LET n == Head(peer.pending) IN
       /\ peer' = [received(peer, n) EXCEPT !.pending = Tail(@)]
       /\ lastOp' = [BusOp("tabReceives", receivedOutcome(peer, n),
                           JSONparse(n.newValue), 0) EXCEPT !.before = peer.last]
    /\ UNCHANGED <<busVars, hookVars, chatVars, twin>>

(* the window of the other tab gains focus: handleWindowFocus of its bus *)
TabFocus ==
    /\ peer' = broadcasted(peer, now)
    /\ storage' = JSONstringify(broadcastEvent("force_refresh", NoValue, NoValue))
    /\ lastOp' = BusOp("tabFocus", "written",
                       broadcastEvent("force_refresh", NoValue, NoValue), 0)
    /\ UNCHANGED <<now, lastEventTimestamp, listeners, handles, envListeners,
                   cleanups, dispatched, registered, hookVars, chatVars, twin>>

NextTabs ==
    \/ Tick
    \/ TabCall
    \/ TabResponse
    \/ TabReceives
    \/ TabFocus

SpecTabs == TabsInit /\ [][NextTabs]_vars

----------------------------------------------------------------------------
(* Two tabs of user u1 at the level of their buses: this tab broadcasts
   mutation events of u1 and force_refresh, the other tab receives them and
   broadcasts its own force_refresh *)

PairInit == TabsInit /\ token = "u1"

(* a broadcast of this tab; the other tab is notified when the value of the
   key changed *)
PairBroadcast ==
    /\ Len(peer.pending) < MaxPending
    /\ \E s \in RelayShapes, written \in BOOLEAN :
          Broadcast(s[1], s[2], s[3], written)
    /\ peer' = [peer EXCEPT !.pending = @ \o storageEvents(storage, storage')]
    /\ UNCHANGED twin

NextPair ==
    \/ Tick
    \/ PairBroadcast
    \/ TabReceives
    \/ TabFocus

SpecPair == PairInit /\ [][NextPair]_vars

----------------------------------------------------------------------------
(* The message transform on the conversations a server can return *)

ServerMessages ==
    {ServerMessage(id, type, data, rating) :
        id \in {"m1", "m2"}, type \in {"USER", "ASSISTANT", "user"},
        data \in {NoData, ResponseData("blocks")}, rating \in {NullRating, 5}}

RECURSIVE SeqsUpTo(_, _)
SeqsUpTo(S, n) ==
    IF n = 0 THEN {<<>>}
    ELSE LET shorter == SeqsUpTo(S, n - 1) IN
         shorter \cup {Append(q, x) : q \in {r \in shorter : Len(r) = n - 1}, x \in S}

Transform ==
    /\ lastOp.op = "new"
    /\ \E messages \in SeqsUpTo(ServerMessages, MaxMessages) : transform(messages)

TransformAgain == transformAgain

NextTransform ==
    \/ Transform
    \/ TransformAgain

SpecTransform == Init /\ [][NextTransform]_vars

----------------------------------------------------------------------------
(* Rating one message: the component shows the rating the message came
   with; the user rates up or down and the server answers with any status *)

RatingInit ==
    /\ BusInit
    /\ token = NoValue
    /\ hook = Unmounted
    /\ calls = <<>>
    /\ wrapper = NewWrapper(NoValue, NoValue, <<>>)
    /\ \E initialRating \in {NullRating, 1, -1} :
           messageRating = NewMessageRating(initialRating)
    /\ lastOp = BusOp("new", "ok", NoEvent, 0)

HandleRate == \E newRating \in {1, -1} : handleRate(newRating)

RateResponse ==
    \E status \in Statuses, detail \in {NoValue, "Rating must be 1 or -1"} :
        rateResponse(status, detail)

ClearRatingError == clearRatingError

NextRating ==
    \/ HandleRate
    \/ RateResponse
    \/ ClearRatingError

SpecRating == RatingInit /\ [][NextRating]_vars

----------------------------------------------------------------------------
(* The chat service called directly, one operation after another or
   overlapping, with the server answering each request either way *)

CallInputs ==
    ({"sendMessageWithFiles", "sendMessage"} \X {NoValue, "new", "c0"})
        \cup ({"createConversation"} \X {NoValue})
        \cup ({"sendMessageToConversation", "updateConversation",
               "deleteConversation"} \X {"c0"})

NewIds == {"c1", "c2"}

CallService == \E in \in CallInputs : callService(in[1], in[2])

ServiceResponse ==
    /\ \E i \in 1..Len(calls), ok \in BOOLEAN, written \in BOOLEAN, newId \in NewIds :
          serviceResponse(i, ok, newId, calls[i].conversationId, written)
    /\ UNCHANGED relayVars

NextService ==
    \/ SetToken
    \/ CallService
    \/ ServiceResponse

SpecService == Init /\ [][NextService]_vars

----------------------------------------------------------------------------
(* One chat wrapper from its first render on: the props and the messages it
   was given, submits, the initial-message effect, renders, responses *)

LoadedMessages == <<Message("user", "earlier"), Message("assistant", "earlier response")>>

WrapperInit ==
    /\ BusInit
    /\ token = NoValue
    /\ hook = Unmounted
    /\ calls = <<>>
    /\ messageRating = NewMessageRating(NullRating)
    /\ \E c \in {NoValue, "c0"}, m \in {NoValue, "hello"},
          ms \in {<<>>, LoadedMessages} :
           wrapper = NewWrapper(c, m, ms)
    /\ lastOp = BusOp("new", "ok", NoEvent, 0)

SubmitText == handleSendMessage("hi")

SubmitFiles == handleSendWithFiles("hi")

InitialMessageEffect == initialMessageEffect

Render == render

SetInitialMessage == \E m \in {"hello", "other"} : setInitialMessage(m)

(* the relay key is writable and the callbacks of the parent return in
   this specification *)
SendResponse ==
    \E i \in 1..Len(calls), ok \in BOOLEAN, onNewRoute \in BOOLEAN :
        \E responseId \in {NoValue, calls[i].conversationId} :
            sendResponse(i, ok, "c1", responseId, TRUE, onNewRoute, FALSE)

NextWrapper ==
    \/ SubmitText
    \/ SubmitFiles
    \/ InitialMessageEffect
    \/ Render
    \/ SetInitialMessage
    \/ SendResponse

SpecWrapper == WrapperInit /\ [][NextWrapper]_vars

----------------------------------------------------------------------------
(* The sends of a wrapper to their end: the callbacks the parent gave may
   throw, and the wrapper may unmount while a send is in flight *)

SettleSend ==
    \E i \in 1..Len(calls), ok \in BOOLEAN, onNewRoute \in BOOLEAN,
       throws \in BOOLEAN :
        sendResponse(i, ok, "c1", calls[i].conversationId, TRUE, onNewRoute, throws)

UnmountWrapper == unmountWrapper

NextSettle ==
    \/ SubmitText
    \/ SubmitFiles
    \/ InitialMessageEffect
    \/ Render
    \/ SettleSend
    \/ UnmountWrapper

SpecSettle == WrapperInit /\ [][NextSettle]_vars

----------------------------------------------------------------------------
(* Properties *)

StrictlyIncreasing(seq) ==
    \A i \in 1..Len(seq) : \A j \in 1..Len(seq) : i < j => seq[i] < seq[j]

Delivered == lastOp.op = "handleStorageEvent"

Dispatched == Delivered /\ lastOp.outcome = "dispatched"

(* C1: a relayed event whose timestamp is less than or equal to the
   instance's last-seen timestamp is never dispatched, and the timestamps of
   the events the instance dispatches are strictly increasing. *)
MonotonicDiscard ==
    /\ (Dispatched => lastOp.event.timestamp > lastOp.before)
    /\ StrictlyIncreasing(dispatched)

(* C1 witness: after two dispatches and a later own broadcast or dispatch, a
   relayed event at or below the last-seen timestamp has been discarded. *)
MonotonicDiscardWitness ==
    /\ Delivered
    /\ lastOp.outcome = "discarded"
    /\ lastOp.event.timestamp <= lastOp.before
    /\ Len(dispatched) >= 2

(* C2: a hook whose current user id is U invokes no callback for a
   dispatched event whose userId equals U. *)
SelfEchoSuppression ==
    (Dispatched /\ Truthy(hook.currentUserId)
        /\ lastOp.event.userId = hook.currentUserId)
    => lastOp.calls = <<>>

(* C2 witness: the bus invoked the hook's listener for an event of the
   hook's own user that carries a conversation id, and no callback ran. *)
SelfEchoSuppressionWitness ==
    /\ Dispatched
    /\ hook.mounted
    /\ Truthy(hook.currentUserId)
    /\ lastOp.event.userId = hook.currentUserId
    /\ lastOp.event.type \in hook.options
    /\ Truthy(lastOp.event.conversationId)
    /\ \E i \in 1..Len(lastOp.result.invoked) : IsHookListener(lastOp.result.invoked[i])
    /\ lastOp.calls = <<>>

ForeignOrigin(event) ==
    ~Truthy(event.userId) \/ event.userId # hook.currentUserId

RegisteredCall(event) ==
    [cb |-> OptionName(event.type),
     conversationId |-> IF event.type = "force_refresh" THEN NoValue
                        ELSE event.conversationId]

(* C3 as stated: for every dispatched event whose userId is absent or
   differs from U, the hook invokes the callback registered for the event's
   type, with no other condition on the event. *)
ForeignEventAlwaysHandled ==
    (Dispatched /\ hook.mounted /\ lastOp.event.type \in hook.options
        /\ ForeignOrigin(lastOp.event))
    => \E i \in 1..Len(lastOp.calls) : lastOp.calls[i].cb = OptionName(lastOp.event.type)

(* C3 amended: for every dispatched event whose userId is absent or differs
   from U, the hook invokes the callback registered for the event's type
   exactly once if the event is a force_refresh or carries a non-empty
   conversationId, and invokes no callback otherwise. *)
ForeignEventHandled ==
    (Dispatched /\ hook.mounted /\ lastOp.event.type \in hook.options
        /\ ForeignOrigin(lastOp.event))
    => IF lastOp.event.type = "force_refresh" \/ Truthy(lastOp.event.conversationId)
       THEN lastOp.calls = <<RegisteredCall(lastOp.event)>>
       ELSE lastOp.calls = <<>>

(* C3 witness: an event of another user with a conversation id reached the
   hook's listener and the registered callback ran with that id. *)
ForeignEventHandledWitness ==
    /\ Dispatched
    /\ hook.mounted
    /\ Truthy(hook.currentUserId)
    /\ Truthy(lastOp.event.userId)
    /\ lastOp.event.userId # hook.currentUserId
    /\ lastOp.event.type = "conversation_updated"
    /\ lastOp.calls = <<[cb |-> "onConversationUpdated", conversationId |-> "c1"]>>

LiveRegistrations ==
    UNION {{listeners[k][i].reg : i \in 1..Len(listeners[k])} : k \in ListenerKeys}

(* C4: the function subscribe() returned removes exactly the registration
   that call created and no other, a second call changes nothing, also after
   destroy(): the live registrations are those subscribed and neither
   unsubscribed through their own function nor cleared by destroy(). *)
UnsubscribeExact == LiveRegistrations = registered

(* C5: when an event is dispatched, every listener registered for its type
   and every wildcard listener is invoked, in order, whether or not one of
   them throws, and no exception escapes the dispatch. *)
ListenerIsolation ==
    Dispatched =>
        /\ lastOp.result.invoked =
               listeners[lastOp.event.type] \o listeners[Wildcard]
        /\ ~lastOp.result.escaped

(* C5 witness: a listener threw and a later listener of the same type and a
   wildcard listener were still invoked. *)
ListenerIsolationWitness ==
    /\ Dispatched
    /\ lastOp.result.caught > 0
    /\ Len(listeners[lastOp.event.type]) >= 2
    /\ Throws(listeners[lastOp.event.type][1])
    /\ listeners[Wildcard] # <<>>
    /\ Len(lastOp.result.invoked) = 3

(* C6: when the REST call of a wrapper send (text or files) fails, the
   message list after the send is the list before the send followed by
   exactly one assistant error message: the optimistic user message is gone,
   nothing else is, and the length is the earlier length plus one. *)
LastSend == calls[lastOp.arg]

SendFailed == lastOp.op = "sendResponse" /\ lastOp.outcome = "rejected"

OptimisticRollback ==
    SendFailed =>
        /\ wrapper.messages =
               LastSend.pre \o <<Message("assistant", ErrorContent(LastSend.caller))>>
        /\ Len(wrapper.messages) = Len(LastSend.pre) + 1
        /\ \A k \in 1..Len(LastSend.pre) : wrapper.messages[k] = LastSend.pre[k]

OptimisticRollbackWitness ==
    /\ SendFailed
    /\ LastSend.caller = "handleSendWithFiles"
    /\ Len(LastSend.pre) >= 2
    /\ Len(wrapper.messages) = Len(LastSend.pre) + 1

(* C7: for a wrapper given an initialMessage, however often the mount effect
   is invoked and whatever renders follow, the chat-service send for the
   initial message is invoked exactly once, never twice. *)
InitialSends == {i \in 1..Len(calls) : calls[i].initial}

OneShotInitialSend ==
    /\ Cardinality(InitialSends) <= 1
    /\ wrapper.initialSends = Cardinality(InitialSends)
    /\ (Truthy(wrapper.initialAtMount) /\ wrapper.invocations >= 1)
           => Cardinality(InitialSends) = 1

OneShotInitialSendWitness ==
    /\ Truthy(wrapper.initialAtMount)
    /\ wrapper.invocations >= 2
    /\ lastOp.op = "initialMessageEffect"
    /\ lastOp.outcome = "skipped"
    /\ ~wrapper.busyRendered
    /\ Cardinality(InitialSends) = 1

(* C8: sendMessageWithFiles called with no conversation id, or with "new",
   and both requests succeeding, issues one create request and then one
   message POST addressed to the id the creation returned, and publishes two
   events in this order: conversation_created, then message_sent, both for
   that id. *)
FileFlowOfNewConversation(c) ==
    /\ c.op = "sendMessageWithFiles"
    /\ c.state = "resolved"
    /\ c.provided \in {NoValue, "new"}

NewConversationFileFlow ==
    \A i \in 1..Len(calls) :
        FileFlowOfNewConversation(calls[i]) =>
            LET c == calls[i] IN
            /\ c.conversationId \in NewIds
            /\ c.requests = <<Request("POST", ConversationsPath, NoValue),
                              Request("POST", MessagesPath, c.conversationId)>>
            /\ c.responses = <<TRUE, TRUE>>
            /\ Len(c.events) = 2
            /\ c.events[1].type = "conversation_created"
            /\ c.events[1].conversationId = c.conversationId
            /\ c.events[2].type = "message_sent"
            /\ c.events[2].conversationId = c.conversationId

NewConversationFileFlowWitness ==
    \E i \in 1..Len(calls) :
        /\ FileFlowOfNewConversation(calls[i])
        /\ calls[i].provided = "new"
        /\ Len(calls[i].events) = 2

(* C9: each of createConversation, sendMessageToConversation,
   updateConversation and deleteConversation publishes its event exactly
   once whenever its mutating request (POST, PUT, DELETE) succeeded on the
   server, and never more than once per call. *)
MutationEvent(op) ==
    CASE op = "createConversation" -> "conversation_created"
      [] op = "sendMessageToConversation" -> "message_sent"
      [] op = "updateConversation" -> "conversation_updated"
      [] op = "deleteConversation" -> "conversation_deleted"

SingleMutationOps ==
    {"createConversation", "sendMessageToConversation", "updateConversation",
     "deleteConversation"}

OnceForEachMutation ==
    \A i \in 1..Len(calls) :
        LET c == calls[i] IN
        c.op \in SingleMutationOps =>
            /\ Len(c.events) <= 1
            /\ (c.state # "pending" /\ c.responses[1])
                   => /\ Len(c.events) = 1
                      /\ c.events[1].type = MutationEvent(c.op)

(* C10 as stated: whenever a chat service operation rejects, no event has
   been published during that call, and no request was retried. *)
NoRetry(c) ==
    /\ Len(c.requests) = Len(c.responses)
    /\ ~c.responses[Len(c.responses)]
    /\ \A j \in 1..(Len(c.responses) - 1) : c.responses[j]
    /\ \A j, k \in 1..Len(c.requests) : j # k => c.requests[j] # c.requests[k]

NoEventOnFailure ==
    \A i \in 1..Len(calls) :
        calls[i].state = "rejected" =>
            /\ calls[i].events = <<>>
            /\ NoRetry(calls[i])

(* C10: whenever a chat service operation rejects, no event has been
   published for the request that failed and no request was retried: an
   operation of one mutation has published nothing, and sendMessage or
   sendMessageWithFiles that had to create the conversation first and then
   failed on the message POST has published conversation_created only. *)
CreatedBeforeFailure(c) ==
    /\ c.op \in {"sendMessage", "sendMessageWithFiles"}
    /\ Len(c.responses) = 2

NoEventForFailedRequest ==
    \A i \in 1..Len(calls) :
        LET c == calls[i] IN
        c.state = "rejected" =>
            /\ NoRetry(c)
            /\ \A k \in 1..Len(c.events) : c.events[k].type # "message_sent"
            /\ IF CreatedBeforeFailure(c)
               THEN /\ Len(c.events) = 1
                    /\ c.events[1].type = "conversation_created"
                    /\ c.events[1].conversationId = c.conversationId
               ELSE c.events = <<>>

NoEventForFailedRequestWitness ==
    \E i \in 1..Len(calls) :
        /\ calls[i].state = "rejected"
        /\ CreatedBeforeFailure(calls[i])
        /\ Len(calls[i].events) = 1

(* C11: for one wrapper, under any interleaving of text submits, file
   submits, block 'query' actions and the initial-message auto-send, at most
   one chat-service send is in flight at any time: a submit that arrives
   while a send is in flight starts no request and appends no message. *)
InFlight == {i \in 1..Len(calls) : calls[i].caller # "direct" /\ calls[i].state = "pending"}

SendEntries == {"handleSendMessage", "handleSendWithFiles", "initialMessageEffect"}

SubmitInFlightChangesNothing ==
    (InFlight # {} /\ lastOp'.op \in SendEntries)
        => /\ calls' = calls
           /\ wrapper'.messages = wrapper.messages

SingleFlight ==
    /\ [](Cardinality(InFlight) <= 1)
    /\ [][SubmitInFlightChangesNothing]_vars

SingleFlightWitness ==
    /\ InFlight # {}
    /\ lastOp.op = "handleSendWithFiles"
    /\ lastOp.outcome = "ignored"
    /\ calls[Len(calls)].caller = "handleSendMessage"

(* C12: within one wrapper, the user message of a send is appended before
   its request starts, and the assistant response or the error message of
   that send is appended only after the call resolved or rejected; the list
   never shows a send's assistant or error message before its user message. *)
AssistantMessages(messages) ==
    {k \in 1..Len(messages) : messages[k].role = "assistant"}

UserMessageWhileInFlight ==
    \A i \in InFlight :
        /\ Len(wrapper.messages) = Len(calls[i].pre) + 1
        /\ SubSeq(wrapper.messages, 1, Len(calls[i].pre)) = calls[i].pre
        /\ wrapper.messages[Len(wrapper.messages)].role = "user"

ResponseAfterUserMessage ==
    (lastOp.op = "sendResponse" /\ lastOp.outcome = "resolved") =>
        /\ Len(wrapper.messages) = Len(LastSend.pre) + 2
        /\ SubSeq(wrapper.messages, 1, Len(LastSend.pre)) = LastSend.pre
        /\ wrapper.messages[Len(LastSend.pre) + 1].role = "user"
        /\ wrapper.messages[Len(LastSend.pre) + 2] = Message("assistant", "response")

AssistantOnlyOnSettle ==
    Cardinality(AssistantMessages(wrapper'.messages))
            > Cardinality(AssistantMessages(wrapper.messages))
        => \E i \in InFlight : calls'[i].state \in {"resolved", "rejected"}

OrderedAppends ==
    /\ [](UserMessageWhileInFlight /\ ResponseAfterUserMessage)
    /\ [][AssistantOnlyOnSettle]_vars

OrderedAppendsWitness ==
    /\ lastOp.op = "sendResponse"
    /\ lastOp.outcome = "resolved"
    /\ Len(LastSend.pre) >= 2
    /\ Len(wrapper.messages) = Len(LastSend.pre) + 2

(* C13: after destroy() the bus has no environment listeners and no
   subscriptions, so that a later focus or visibility change broadcasts
   nothing and a later storage notification invokes no listener and leaves
   the last-seen timestamp alone; a second destroy() changes nothing. *)
Destroyed == lastOp.op = "destroy"

DestroyDetaches ==
    /\ [](Destroyed => (envListeners = {} /\ listeners = EmptyListeners))
    /\ [][Destroyed => (lastEventTimestamp' = lastEventTimestamp /\ storage' = storage)]_vars

(* C14 as stated: broadcast invokes none of the instance's own listeners,
   sets the last-seen timestamp to the new event's timestamp and leaves the
   subscriptions unchanged; a copy of the own event relayed later is
   discarded. *)
Broadcasted == lastOp.op = "broadcast"

NoSelfNotification ==
    /\ Broadcasted => (lastOp.result = NoDispatch /\ lastOp.calls = <<>>)
    /\ (lastOp.op = "handleStorageEvent" /\ lastOp.event.timestamp \in cleanups)
           => lastOp.outcome = "discarded"

BroadcastFrame ==
    lastOp'.op = "broadcast"
        => /\ listeners' = listeners
           /\ handles' = handles
           /\ dispatched' = dispatched

BroadcastSetsLastSeen ==
    /\ [](NoSelfNotification)
    /\ [](Broadcasted => lastEventTimestamp = lastOp.event.timestamp)
    /\ [][BroadcastFrame]_vars

(* C14: the same, with the last-seen timestamp set to the new event's
   timestamp when the write of the relay key succeeded and left unchanged
   when the write failed (nothing is relayed then). *)
BroadcastSetsLastSeenIfWritten ==
    /\ [](NoSelfNotification)
    /\ []((Broadcasted /\ lastOp.outcome = "written")
              => lastEventTimestamp = lastOp.event.timestamp)
    /\ []((Broadcasted /\ lastOp.outcome = "write_failed")
              => lastEventTimestamp = lastOp.before)
    /\ [][BroadcastFrame]_vars

BroadcastSetsLastSeenIfWrittenWitness ==
    /\ lastOp.op = "handleStorageEvent"
    /\ lastOp.outcome = "discarded"
    /\ lastOp.event.timestamp \in cleanups
    /\ lastOp.event.timestamp = lastEventTimestamp
    /\ lastOp.event.type = "message_sent"
    /\ Len(listeners["message_sent"]) >= 1
    /\ Len(listeners[Wildcard]) >= 1

(* C15: a storage notification on the relay key that carries a well-formed
   event whose timestamp is strictly greater than the last-seen timestamp
   invokes every listener subscribed to the event's type and every '*'
   listener exactly once each with that event, and the last-seen timestamp
   becomes the event's timestamp. *)
NewerEventReceived ==
    /\ lastOp.op = "handleStorageEvent"
    /\ lastOp.event.type \in EventTypes
    /\ lastOp.event.timestamp > lastOp.before

DispatchToAll ==
    NewerEventReceived =>
        /\ lastOp.outcome = "dispatched"
        /\ lastOp.result.invoked = listeners[lastOp.event.type] \o listeners[Wildcard]
        /\ ~lastOp.result.escaped
        /\ lastEventTimestamp = lastOp.event.timestamp

DispatchToAllWitness ==
    /\ NewerEventReceived
    /\ lastOp.before >= 1
    /\ Len(listeners[lastOp.event.type]) >= 1
    /\ Len(listeners[Wildcard]) >= 1
    /\ Len(lastOp.result.invoked) >= 2

(* C16: the events a bus instance dispatches, and their order, are the same
   whether the writer's delayed cleanup of the relay key runs, fails or
   never runs; a notification caused by the removal of the key dispatches
   nothing and changes no last-seen timestamp. *)
IsPrefix(a, b) == Len(a) <= Len(b) /\ SubSeq(b, 1, Len(a)) = a

Drained == peer.pending = <<>> /\ twin.pending = <<>>

SameDispatch ==
    /\ IsPrefix(peer.dispatched, twin.dispatched)
           \/ IsPrefix(twin.dispatched, peer.dispatched)
    /\ Drained => (peer.dispatched = twin.dispatched /\ peer.last = twin.last)

RemovalNotified ==
    /\ peer.pending # <<>>
    /\ Head(peer.pending).newValue.kind = "null"
    /\ peer'.pending = Tail(peer.pending)

RemovalDispatchesNothing ==
    RemovalNotified => (peer'.dispatched = peer.dispatched /\ peer'.last = peer.last)

CleanupIndependence ==
    /\ [](SameDispatch)
    /\ [][RemovalDispatchesNothing]_vars

CleanupIndependenceWitness ==
    /\ Drained
    /\ twin.missed
    /\ lastOp.op = "peerReceives"
    /\ lastOp.outcome = "discarded"
    /\ peer.dispatched = twin.dispatched
    /\ Len(peer.dispatched) >= 2

(* C17: a storage notification on the relay key whose payload is not a
   well-formed ChatEvent (unparseable JSON, or parsed JSON lacking a numeric
   timestamp or a known type) raises no exception, invokes no listener and
   leaves the last-seen timestamp unchanged. *)
WellFormed(event) ==
    event.type \in EventTypes /\ event.timestamp # NoTimestamp

MalformedDropped ==
    (Delivered /\ ~WellFormed(lastOp.event)) =>
        /\ lastOp.result = NoDispatch
        /\ lastEventTimestamp = lastOp.before

(* C18: if writing the relay key fails during broadcast, broadcast returns
   normally, so a chat service operation whose requests succeeded still
   returns its result to the caller instead of failing. *)
AllRequestsSucceeded(c) ==
    c.state # "pending" /\ \A k \in 1..Len(c.responses) : c.responses[k]

WriteFailureTolerated ==
    \A i \in 1..Len(calls) :
        AllRequestsSucceeded(calls[i]) => calls[i].state = "resolved"

WriteFailureToleratedWitness ==
    /\ lastOp.op = "serviceResponse"
    /\ lastOp.outcome = "resolved"
    /\ Len(LastSend.events) = 2
    /\ lastEventTimestamp = 0
    /\ storage = NullValue

----------------------------------------------------------------------------
(* The auto-refresh timer *)

Ticked == lastOp.op = "refreshTimeout"

(* the tick of a hook that is mounted when the timer fires *)
LiveTick == Ticked /\ lastOp.live

PendingTicks == {t \in hook.timers : t.instance = hook.instance}

(* C19: while a hook is mounted with auto-refresh enabled, every tick calls
   onForceRefresh if and only if the document is visible at that tick, every
   tick schedules exactly one next tick whether or not the callback ran and
   whatever it did, and the chain of ticks never stops before unmount. *)
SteadyTicks ==
    /\ (LiveTick /\ lastOp.onForceRefresh)
           => (lastOp.calls # <<>> <=> ~lastOp.hidden)
    /\ LiveTick => lastOp.scheduled = 1
    /\ (hook.mounted /\ AutoRefresh \in hook.options)
           => Cardinality(PendingTicks) = 1

----------------------------------------------------------------------------
(* After unmount *)

(* C20: after a hook unmounts none of its callbacks is invoked again: a tick
   calls onForceRefresh only for a hook that is mounted when the timer fires,
   whenever the timer was scheduled, and a dispatched event reaches a
   callback only while the hook is mounted. *)
SilentAfterUnmount ==
    /\ (Ticked /\ lastOp.calls # <<>>) => lastOp.live
    /\ (Dispatched /\ lastOp.calls # <<>>) => hook.mounted

----------------------------------------------------------------------------
(* Two tabs *)

(* the conversations user u1 created from this tab: the conversation_created
   events its createConversation calls published, as <<call, position>> *)
Creations ==
    {p \in {<<i, k>> : i \in 1..Len(calls), k \in 1..2} :
        /\ p[2] <= Len(calls[p[1]].events)
        /\ calls[p[1]].events[p[2]].type = "conversation_created"
        /\ calls[p[1]].events[p[2]].userId = "u1"
        /\ calls[p[1]].events[p[2]].conversationId = "c1"}

(* the onConversationCreated("c1") calls of a hook of the other tab whose
   currentUserId is uid *)
CreatedCalls(uid) ==
    LET cs == callsFor(uid, peer.dispatched) IN
    {k \in 1..Len(cs) : cs[k].cb = "onConversationCreated"
                            /\ cs[k].conversationId = "c1"}

(* the other tab has handled every storage event fired so far *)
Quiet == peer.pending = <<>>

(* C21: when user u1 sends a first message from this tab and
   createConversation returns c1, a hook of another tab whose user id is u2
   or unset has onConversationCreated called with c1 exactly once for that
   creation, once the tab has handled the storage events fired. *)
CreationReachesOtherTab ==
    (Quiet /\ token = "u1")
        => /\ Cardinality(CreatedCalls("u2")) = Cardinality(Creations)
           /\ Cardinality(CreatedCalls(NoValue)) = Cardinality(Creations)

----------------------------------------------------------------------------
(* The conversation a wrapper created *)

(* the sends of the wrapper that knew no conversation id and resolved with
   the id of a conversation *)
CreatingSends ==
    {i \in 1..Len(calls) :
        /\ calls[i].caller # "direct"
        /\ ~Truthy(calls[i].provided)
        /\ calls[i].state = "resolved"
        /\ Truthy(calls[i].response)}

CreatesConversation(c) ==
    \E k \in 1..Len(c.requests) :
        c.requests[k].method = "POST" /\ c.requests[k].path = ConversationsPath

(* C22: after a wrapper that knew no conversation id completed a successful
   send that returned conversation id c, the creation callback has fired
   with c, and every later send of that wrapper is addressed to c and
   creates no further conversation. *)
AdoptsCreatedId ==
    /\ (lastOp.op = "sendResponse" /\ lastOp.arg \in CreatingSends)
           => \E k \in 1..Len(lastOp.calls) : lastOp.calls[k] = "onConversationCreated"
    /\ \A i \in CreatingSends : \A j \in (i + 1)..Len(calls) :
           /\ calls[j].provided = calls[i].response
           /\ ~CreatesConversation(calls[j])

----------------------------------------------------------------------------
(* The message transform *)

Transformed == lastOp.op = "transformMessagesToDisplay"

(* C23: transformMessagesToDisplay applied twice to the same array returns
   equal outputs, leaves the array and its messages as they were, and
   returns one DisplayMessage per message in the same order, its role 'user'
   exactly when message_type is 'USER'. *)
TransformPure ==
    Transformed =>
        /\ lastOp.display = lastOp.first
        /\ lastOp.messages = lastOp.input
        /\ Len(lastOp.display) = Len(lastOp.input)
        /\ \A i \in 1..Len(lastOp.input) :
              /\ lastOp.display[i].id = lastOp.input[i].id
              /\ lastOp.display[i].content = lastOp.input[i].content
              /\ lastOp.display[i].role \in {"user", "assistant"}
              /\ lastOp.display[i].role = "user"
                     <=> lastOp.input[i].message_type = "USER"

(* C23 witness: the transform ran twice on two messages in an order their
   ids tell, a 'USER' message and one that is not *)
TransformPureWitness ==
    /\ Transformed
    /\ lastOp.arg = 2
    /\ Len(lastOp.input) = 2
    /\ lastOp.input[1].id = "m2" /\ lastOp.input[2].id = "m1"
    /\ lastOp.input[1].message_type = "user"
    /\ lastOp.input[2].message_type = "USER"
    /\ lastOp.display[2].role = "user"

----------------------------------------------------------------------------
(* Focus and visibility *)

RefreshEvent == ChatEvent("force_refresh", NoValue, NoValue, now)

(* the step was a focus of the window or a change of the document to visible *)
CameToForeground ==
    \/ lastOp'.op = "handleWindowFocus"
    \/ lastOp'.op = "handleVisibilityChange" /\ lastOp'.arg = 0

WentHidden == lastOp'.op = "handleVisibilityChange" /\ lastOp'.arg = 1

(* the step made exactly one broadcast, of a force_refresh without userId *)
OneRefreshBroadcast ==
    /\ lastOp'.event = RefreshEvent
    /\ IF lastOp'.outcome = "written"
       THEN /\ storage' = JSONstringify(RefreshEvent)
            /\ lastEventTimestamp' = now
            /\ cleanups' = cleanups \cup {now}
       ELSE /\ lastOp'.outcome = "write_failed"
            /\ UNCHANGED <<storage, lastEventTimestamp, cleanups>>

(* every hook that is given the event, whatever its user, calls onForceRefresh *)
NoHookSuppresses(event) ==
    \A uid \in {NoValue, "u1", "u2"} :
        callsFor(uid, <<event>>)
            = <<[cb |-> "onForceRefresh", conversationId |-> NoValue]>>

(* C24: whenever the window gains focus or the document changes to visible,
   the tab's bus makes exactly one broadcast per notification, of a
   force_refresh event that carries no userId, so that no hook receiving it
   suppresses it as its own; a change to hidden broadcasts nothing. *)
ForegroundRefresh ==
    /\ []((lastOp.op \in {"handleWindowFocus", "handleVisibilityChange"}
              /\ lastOp.outcome = "written")
           => (storage.kind = "json" /\ NoHookSuppresses(JSONparse(storage))))
    /\ [][/\ CameToForeground => OneRefreshBroadcast
          /\ WentHidden => UNCHANGED <<storage, lastEventTimestamp, cleanups>>]_vars

(* C24 witness: the document became visible after it had been hidden and the
   bus wrote a force_refresh without userId at a later time *)
ForegroundRefreshWitness ==
    /\ lastOp.op = "handleVisibilityChange"
    /\ lastOp.arg = 0
    /\ lastOp.outcome = "written"
    /\ storage = JSONstringify(ChatEvent("force_refresh", NoValue, NoValue, now))
    /\ lastEventTimestamp = now
    /\ now > 1

----------------------------------------------------------------------------
(* Rating a message *)

RatingFailed == lastOp.op = "rateResponse" /\ lastOp.outcome = "failed"

(* C25: when rating a message fails with status 401 or 403, the error the
   caller is given is the permission message, which differs from the generic
   message and from the messages for 400 and 404, and the rating shown stays
   what it was. *)
AuthorizationFailureDistinct ==
    (RatingFailed /\ lastOp.arg \in {401, 403})
        => /\ messageRating.error = PermissionMessage
           /\ messageRating.error \notin {GenericMessage, NotFoundMessage,
                                          InvalidMessage}
           /\ messageRating.rating = lastOp.rating

----------------------------------------------------------------------------
(* The end of a wrapper's send *)

SendSettled ==
    lastOp.op = "sendResponse" /\ lastOp.outcome \in {"resolved", "rejected"}

SendStarted ==
    /\ lastOp.op \in {"handleSendMessage", "handleSendWithFiles",
                      "initialMessageEffect"}
    /\ lastOp.outcome = "sending"

(* C26: once the REST call of a send of a mounted wrapper resolved or
   rejected, the wrapper is not busy and its error is set exactly when the
   call rejected; a send that starts leaves the wrapper busy with its error
   cleared. *)
SendLeavesSending ==
    /\ (SendSettled /\ wrapper.mounted)
           => /\ ~wrapper.busy
              /\ Truthy(wrapper.error) <=> lastOp.outcome = "rejected"
    /\ SendStarted => wrapper.busy /\ ~Truthy(wrapper.error)

(* C27: when the call of a send settles after the wrapper unmounted, no
   creation or update callback of the wrapper is invoked, no redirect is
   made and the message list of the wrapper is what it was. *)
SettlesUnobserved ==
    (SendSettled /\ ~wrapper.mounted) => lastOp.calls = <<>>

----------------------------------------------------------------------------
(* Two tabs of one user *)

OwnEvents(uid) == SelectSeq(peer.dispatched, LAMBDA e : e.userId = uid)

AnonymousEvents == SelectSeq(peer.dispatched, LAMBDA e : ~Truthy(e.userId))

(* C28: the hook of another tab whose current user is the user of this tab
   runs no callback for the events this tab published with that userId; the
   callbacks it runs are those for the events without userId. *)
SameUserSilence ==
    token = "u1"
        => /\ callsFor("u1", OwnEvents("u1")) = <<>>
           /\ callsFor("u1", peer.dispatched) = callsFor("u1", AnonymousEvents)
           /\ \A k \in 1..Len(callsFor("u1", peer.dispatched)) :
                  callsFor("u1", peer.dispatched)[k].cb = OptionName("force_refresh")

(* C28 witness: the bus of the other tab dispatched a mutation event of user
   u1 and a force_refresh of this tab, and its hook for u1 ran one callback *)
SameUserSilenceWitness ==
    /\ token = "u1"
    /\ \E k \in 1..Len(peer.dispatched) :
          /\ peer.dispatched[k].userId = "u1"
          /\ Truthy(peer.dispatched[k].conversationId)
    /\ Len(AnonymousEvents) = 1
    /\ Len(callsFor("u1", peer.dispatched)) = 1

(* the other tab handled the notification at the head of its queue *)
PeerReceived ==
    /\ peer.pending # <<>>
    /\ peer'.pending = Tail(peer.pending)
    /\ lastOp'.op = "tabReceives"

(* C29: a bus that receives a relayed event whose timestamp is less than or
   equal to its last-seen timestamp, which its own broadcasts and the events
   it dispatched set, discards the event: it dispatches nothing and its
   last-seen timestamp stays. *)
StaleRelayDiscarded ==
    [][(PeerReceived /\ JSONparse(Head(peer.pending).newValue).timestamp <= peer.last)
          => /\ lastOp'.outcome = "discarded"
             /\ peer'.dispatched = peer.dispatched
             /\ peer'.last = peer.last]_vars

(* C29 witness: this tab wrote a mutation event, the other tab, which had
   broadcast or dispatched in the same millisecond, received and discarded it, nothing is
   left to deliver, and the event is not among those the other tab
   dispatched *)
StaleRelayDiscardedWitness ==
    /\ lastOp.op = "tabReceives"
    /\ lastOp.outcome = "discarded"
    /\ lastOp.event.type = "message_sent"
    /\ lastOp.event.timestamp = lastOp.before
    /\ peer.pending = <<>>
    /\ \A k \in 1..Len(peer.dispatched) : peer.dispatched[k] # lastOp.event

----------------------------------------------------------------------------
(* The last-seen timestamp of a bus *)

(* C30: the last-seen timestamp of a bus is a number in every state and no
   step, broadcast or storage notification, well-formed or not, makes it
   smaller. *)
LastSeenMonotone ==
    /\ [](lastEventTimestamp # NoTimestamp)
    /\ [][lastEventTimestamp' >= lastEventTimestamp]_vars

====
